---- MODULE Spec2Model ----
(***************************************************************************)
(* A model of the rightmove-scraper fetch-cache-crawl pipeline:            *)
(*   - normalize_url        (src/src/scraper/utils/url.py)                 *)
(*   - HttpClient.get       (src/src/scraper/http_client.py)               *)
(*   - Fetcher.fetch_webpage, Fetcher.fetch_and_save_properties            *)
(*                          (src/src/scraper/fetcher.py)                   *)
(*   - Database.get_content, save_content, save_properties                 *)
(*                          (src/src/scraper/database/base.py, models.py)  *)
(*   - SitemapProcessor.get_all_page_urls (src/src/scraper/sitemap.py)     *)
(*                                                                         *)
(* Time is counted in hours.  A URL is a sequence of tokens: the           *)
(* delimiters ":" "/" "?" "#" "&" "=" ";" and atoms (maximal runs of       *)
(* other characters), so that urlparse / parse_qs / urlencode / urlunparse *)
(* are computed on the text as the library computes them.                  *)
(***************************************************************************)
EXTENDS Integers, Sequences, FiniteSets, TLC

VARIABLES
    now,            \* the wall clock, datetime.now(timezone.utc), in hours
    column_default, \* the value datetime.now(timezone.utc) had when models.py was imported
    client_closed,  \* HttpClient.client is an AsyncClient on which aclose() has been called
    kw,             \* the **kwargs of the running operation: delay, max_retries
    calls,          \* the HttpClient.get coroutines, by task number
    cache,          \* table cached_content: a set of rows
    w,              \* the running / last Fetcher.fetch_webpage call
    store,          \* table property: a set of rows
    b,              \* the running / last Fetcher.fetch_and_save_properties call
    crawl,          \* the running / last SitemapProcessor.get_all_page_urls call
    run,            \* the reconciliation of the last run: candidates, new, expired, work
    norm            \* two input URLs and what normalize_url returned for them

vars == <<now, column_default, client_closed, kw, calls, cache, w, store, b, crawl, run, norm>>

(***************************************************************************)
(* Bounds                                                                  *)
(***************************************************************************)
MaxTime == 3        \* the clock runs 0 .. MaxTime
MaxRetries == 3     \* a bare HttpClient.get draws max_retries from 0 .. MaxRetries
OpRetries == 2      \* fetch_webpage draws max_retries from 0 .. OpRetries
MaxBatch == 2       \* a batch holds at most MaxBatch ids
MaxFetches == 3     \* the fetches of one sitemap URL are counted up to MaxFetches

\* The Fetcher is constructed as Fetcher(cache_ttl_hours = cache_ttl_hours)
cache_ttl_hours == 2

\* A run asks for the ids that expired ExpiredHours ago:
\* get_expired_property_rightmove_ids(hours: int = 6), scaled to the clock
ExpiredHours == 2

None == "None"

(***************************************************************************)
(* Sequence helpers                                                        *)
(***************************************************************************)
\* s.find(t): the first index of token t in s, 0 when absent
Find(s, t) ==
    IF \E i \in 1..Len(s) : s[i] = t
    THEN CHOOSE i \in 1..Len(s) : s[i] = t /\ \A j \in 1..(i-1) : s[j] # t
    ELSE 0

\* s.rfind(t): the last index of token t in s, 0 when absent
RFind(s, t) ==
    IF \E i \in 1..Len(s) : s[i] = t
    THEN CHOOSE i \in 1..Len(s) : s[i] = t /\ \A j \in (i+1)..Len(s) : s[j] # t
    ELSE 0

\* s[i:] with 1-based i
From(s, i) == SubSeq(s, i, Len(s))

\* s[:i] exclusive of 1-based i
Upto(s, i) == SubSeq(s, 1, i - 1)

Delims == {":", "/", "?", "#", "&", "=", ";"}

\* str.lower() on one token
Lower(t) ==
    CASE t = "Example.com" -> "example.com"
      [] t = "HTTP" -> "http"
      [] OTHER -> t

LowerSeq(s) == [i \in 1..Len(s) |-> Lower(s[i])]

\* str.rstrip('/')
RECURSIVE RStripSlash(_)
RStripSlash(s) ==
    IF Len(s) > 0 /\ s[Len(s)] = "/" THEN RStripSlash(Upto(s, Len(s))) ELSE s

\* str.split(sep) for a one-token separator: a sequence of token sequences
RECURSIVE Split(_, _)
Split(s, sep) ==
    LET i == Find(s, sep)
    IN  IF i = 0 THEN <<s>> ELSE <<Upto(s, i)>> \o Split(From(s, i + 1), sep)

(***************************************************************************)
(* urllib.parse, as normalize_url uses it                                  *)
(***************************************************************************)
\* the element of a one-element set: Value({F(x) : x \in {e}}) is F(e) with e
\* computed once
Value(S) == CHOOSE x \in S : TRUE

\* urlsplit's scheme rule: text before the first ":" made of scheme characters
HasScheme(url) ==
    LET i == Find(url, ":")
    IN  i = 2 /\ url[1] \notin Delims

\* the first index >= 1 of a token of set D in s, Len(s)+1 when there is none
FirstOf(s, D) ==
    IF \E i \in 1..Len(s) : s[i] \in D
    THEN CHOOSE i \in 1..Len(s) : s[i] \in D /\ \A j \in 1..(i-1) : s[j] \notin D
    ELSE Len(s) + 1

\* urlsplit, the scheme: [scheme, rest]
SplitScheme(url) ==
    IF HasScheme(url) THEN [scheme |-> Lower(url[1]), rest |-> From(url, 3)]
    ELSE [scheme |-> "", rest |-> url]

\* urlsplit, the netloc of a rest that starts with "//": [netloc, rest]
SplitNetloc(r0) ==
    IF Len(r0) >= 2 /\ r0[1] = "/" /\ r0[2] = "/"
    THEN [netloc |-> Upto(From(r0, 3), FirstOf(From(r0, 3), {"/", "?", "#"})),
          rest   |-> From(From(r0, 3), FirstOf(From(r0, 3), {"/", "?", "#"}))]
    ELSE [netloc |-> <<>>, rest |-> r0]

\* urlsplit, the fragment and then the query: [path, query, fragment]
SplitTail(r2) ==
    LET h  == Find(r2, "#")
        r3 == IF h = 0 THEN r2 ELSE Upto(r2, h)
        q  == Find(r3, "?")
    IN  [path     |-> IF q = 0 THEN r3 ELSE Upto(r3, q),
         query    |-> IF q = 0 THEN <<>> ELSE From(r3, q + 1),
         fragment |-> IF h = 0 THEN <<>> ELSE From(r2, h + 1)]

\* _splitparams: the first ";" after the last "/" of the path: [path, params]
SplitParams(r4) ==
    LET sl == RFind(r4, "/")
        p  == Find(From(r4, sl + 1), ";")
    IN  IF p = 0 THEN [path |-> r4, params |-> <<>>]
        ELSE [path |-> Upto(r4, sl + p), params |-> From(r4, sl + p + 1)]

urlparse(url) ==
    Value({ Value({ Value({ Value({
        [scheme |-> s.scheme, netloc |-> n.netloc, path |-> p.path,
         params |-> p.params, query |-> t.query, fragment |-> t.fragment]
      : p \in {SplitParams(t.path)} })
      : t \in {SplitTail(n.rest)} })
      : n \in {SplitNetloc(s.rest)} })
      : s \in {SplitScheme(url)} })

\* parse_qs(query): the (name, value) fields in order of appearance; a field
\* without "=" or with a blank value is dropped (keep_blank_values=False)
QsFields(query) ==
    LET parts == IF query = <<>> THEN <<>> ELSE Split(query, "&")
        ok(f) == LET e == Find(f, "=") IN e # 0 /\ Len(From(f, e + 1)) > 0
        kept  == SelectSeq(parts, ok)
    IN  [i \in 1..Len(kept) |->
            LET e == Find(kept[i], "=")
            IN  [k |-> Upto(kept[i], e), v |-> From(kept[i], e + 1)]]

\* the keys of the dict parse_qs builds, in insertion order
RECURSIVE DictKeys(_, _)
DictKeys(fields, seen) ==
    IF fields = <<>> THEN <<>>
    ELSE IF fields[1].k \in seen THEN DictKeys(Tail(fields), seen)
    ELSE <<fields[1].k>> \o DictKeys(Tail(fields), seen \cup {fields[1].k})

tracking_params ==
    { <<"utm_source">>, <<"utm_medium">>, <<"utm_campaign">>, <<"utm_term">>,
      <<"utm_content">>, <<"fbclid">>, <<"gclid">>, <<"ref">>, <<"source">> }

RECURSIVE JoinAmp(_)
JoinAmp(items) ==
    IF items = <<>> THEN <<>>
    ELSE IF Len(items) = 1 THEN items[1]
    ELSE items[1] \o <<"&">> \o JoinAmp(Tail(items))

RECURSIVE Flatten(_)
Flatten(ss) == IF ss = <<>> THEN <<>> ELSE ss[1] \o Flatten(Tail(ss))

\* the "key=value" items of one key of the dict, its values in order
ItemsOf(fields, key) ==
    LET of == SelectSeq(fields, LAMBDA f : f.k = key)
    IN  [j \in 1..Len(of) |-> key \o <<"=">> \o of[j].v]

\* urlencode(query_params, doseq=True) after the tracking keys are deleted:
\* the dict's keys in insertion order, each with its values in order
urlencode(fields) ==
    Value({ JoinAmp(Flatten([i \in 1..Len(keys) |->
                Value({ItemsOf(fields, key) : key \in {keys[i]}})]))
          : keys \in {SelectSeq(DictKeys(fields, {}),
                                LAMBDA k : k \notin tracking_params)} })

\* urlunparse((scheme, netloc, path, params, query, fragment)) with scheme
\* "https", which is in uses_netloc, and an empty fragment
urlunparse(t) ==
    LET u0  == IF t.params # <<>> THEN t.path \o <<";">> \o t.params ELSE t.path
        dbl == Len(u0) >= 2 /\ u0[1] = "/" /\ u0[2] = "/"
        u1  == IF t.netloc # <<>> \/ ~dbl
               THEN <<"/", "/">> \o t.netloc
                    \o (IF u0 # <<>> /\ u0[1] # "/" THEN <<"/">> ELSE <<>>) \o u0
               ELSE u0
        u3  == IF t.query # <<>> THEN <<"https", ":">> \o u1 \o <<"?">> \o t.query
               ELSE <<"https", ":">> \o u1
    IN  IF t.fragment # <<>> THEN u3 \o <<"#">> \o t.fragment ELSE u3

normalize_url(url) ==
    Value({ Value({ urlunparse(t)
                  : t \in {[netloc   |-> LowerSeq(parsed.netloc),
                            path     |-> RStripSlash(parsed.path),
                            params   |-> parsed.params,
                            query    |-> Value({urlencode(f) : f \in {QsFields(parsed.query)}}),
                            fragment |-> <<>>]} })
          : parsed \in {urlparse(url)} })

(***************************************************************************)
(* Inputs                                                                  *)
(***************************************************************************)
\* http://Example.com/a/?b=2&a=1&utm_source=x
UrlA1 == <<"http", ":", "/", "/", "Example.com", "/", "a", "/", "?",
           "b", "=", "2", "&", "a", "=", "1", "&", "utm_source", "=", "x">>
\* https://example.com/a?b=2&a=1
UrlA2 == <<"https", ":", "/", "/", "example.com", "/", "a", "?",
           "b", "=", "2", "&", "a", "=", "1">>
\* https://example.com/sitemap.xml#top
UrlS == <<"https", ":", "/", "/", "example.com", "/", "sitemap.xml", "#", "top">>

RawUrls == {UrlA1, UrlA2, UrlS}

\* normalize_url on the input URLs, computed once
KeyOf == [u \in RawUrls |-> normalize_url(u)]

\* response.text of a 2xx response
Bodies == {"", "b1", "b2"}

\* what `await self.client.get(url)` can produce: a response with a status,
\* or an exception (httpx.ReadError, or one that is not a ReadError, such as
\* httpx.ConnectTimeout)
NetOutcomes ==
    {[status |-> 200, body |-> bd, exc |-> "-"] : bd \in Bodies}
    \cup {[status |-> s, body |-> "", exc |-> "-"] : s \in {404, 410, 500}}
    \cup {[status |-> 0, body |-> "", exc |-> e] : e \in {"ReadError", "ConnectTimeout"}}

\* the delay and max_retries arguments of HttpClient.get
Kwargs == [delay : {0, 1}, max_retries : 0..MaxRetries]

\* the **kwargs fetch_webpage hands down
OpKwargs == [delay : {0, 1}, max_retries : 0..OpRetries]

\* the **kwargs fetch_and_save_properties hands down: no attempt at all, or
\* two attempts (one retry)
BatchKwargs == [delay : {0, 1}, max_retries : {0, 2}]

Tasks == 1..MaxBatch

\* the entity ids (rightmove ids) a batch is called with
Ids == {1, 2}

(***************************************************************************)
(* HttpClient.get                                                          *)
(***************************************************************************)
Ev(e, n, s) == [ev |-> e, n |-> n, s |-> s]

NoRes == [kind |-> "-", body |-> None, status |-> 0, exc |-> "-"]
NoCall == [pc |-> "none", attempt |-> 0, log |-> <<>>, res |-> NoRes]

Finished(c) == c.pc \in {"returned", "raised"}

Returned(c, body, status) ==
    [c EXCEPT !.pc = "returned",
              !.res = [kind |-> "pair", body |-> body, status |-> status, exc |-> "-"]]

\* the for loop ends without a return statement: the coroutine returns None
ReturnedNone(c) ==
    [c EXCEPT !.pc = "returned",
              !.res = [kind |-> "none", body |-> None, status |-> 0, exc |-> "-"]]

Raised(c, exc, status) ==
    [c EXCEPT !.pc = "raised",
              !.res = [kind |-> "exc", body |-> None, status |-> status, exc |-> exc]]

\* mutant of IsPermanent: 410 is not treated as permanent
IsPermanent_404_only(status) == status = 404

\* response.status_code == 404 or response.status_code == 410
IsPermanent(status) == status = 404 \/ status = 410

\* response.raise_for_status() returns for a 2xx status and raises otherwise
IsSuccess(status) == status \in 200..299

\* mutant of Caught: the handler is written `except httpx.HTTPError`
Caught_http_errors(exc) == exc = "ReadError" \/ exc = "HTTPStatusError"

\* except httpx.ReadError
Caught(exc) == exc = "ReadError"

\* attempt == max_retries - 1
LastAttempt(attempt, max_retries) == attempt = max_retries - 1

\* mutant of Backoff: the wait grows by two units per attempt
Backoff_linear(attempt) == 2 * attempt

\* 2 ** attempt
Backoff(attempt) == 2 ^ attempt

\* `self.client.get(url)`: a closed AsyncClient refuses to send (RuntimeError)
Send(c) ==
    IF client_closed
    THEN Raised([c EXCEPT !.log = Append(@, Ev("refused", c.attempt, "-"))],
                "RuntimeError", 0)
    ELSE [c EXCEPT !.pc = "request", !.log = Append(@, Ev("get", c.attempt, "-"))]

\* the top of `for attempt in range(max_retries)`, c.attempt being the next value
LoopTop(c, k) ==
    IF c.attempt >= k.max_retries THEN ReturnedNone(c)
    ELSE IF k.delay > 0 THEN [c EXCEPT !.pc = "delay"]
    ELSE Send(c)

\* an exception raised inside the try block
Except(c, exc, status, k) ==
    IF Caught(exc)
    THEN IF LastAttempt(c.attempt, k.max_retries)
         THEN Raised(c, exc, status)
         ELSE [c EXCEPT !.pc = "closing", !.log = Append(@, Ev("aclose", c.attempt, "-"))]
    ELSE Raised(c, exc, status)

\* the code after `response = await self.client.get(url)` for outcome o
OnOutcome(c, o, k) ==
    IF o.exc # "-"
    THEN Except([c EXCEPT !.log = Append(@, Ev("exc", 0, o.exc))], o.exc, 0, k)
    ELSE LET c1 == [c EXCEPT !.log = Append(@, Ev("resp", o.status, "-"))]
         IN  IF IsPermanent(o.status) THEN Returned(c1, None, o.status)
             ELSE IF ~IsSuccess(o.status)
                  THEN Except(c1, "HTTPStatusError", o.status, k)
                  ELSE Returned(c1, o.body, o.status)

(***************************************************************************)
(* fetch_single_property, the coroutine a batch runs for each id           *)
(***************************************************************************)
\* PropertyPageParser.parse(html): the extracted data, or None
parse(body) ==
    CASE body = "b1" -> "d1"
      [] body = "b2" -> "d2"
      [] OTHER -> None

Pending == [rightmove_id |-> 0 - 1, data |-> None, status |-> 0]

\* `except Exception`: the task returns (None, None); None is written 0
Failed == [rightmove_id |-> 0, data |-> None, status |-> 0]

\* the try block of fetch_single_property raises: HttpClient.get raised, or it
\* returned None, which `property_html, status_code = ...` cannot unpack
TryRaises(c) == c.pc = "raised" \/ c.res.kind = "none"

\* mutant of fetch_single_property: the except clause returns (rightmove_id, None)
fetch_single_property_keeps_id(rightmove_id, c) ==
    IF c.pc = "raised" \/ c.res.kind = "none" \/ c.res.status = 404 \/ c.res.status = 410
    THEN [rightmove_id |-> rightmove_id, data |-> None, status |-> c.res.status]
    ELSE [rightmove_id |-> rightmove_id, data |-> parse(c.res.body),
          status |-> c.res.status]

\* fetch_single_property(url) once self.http_client.get is over with call c;
\* status records the response status the result came from.  A call that
\* raised, and one that returned None (which cannot be unpacked), end in the
\* except clause
fetch_single_property(rightmove_id, c) ==
    IF TryRaises(c) THEN Failed
    ELSE IF c.res.status = 404 \/ c.res.status = 410
         THEN [rightmove_id |-> rightmove_id, data |-> None, status |-> c.res.status]
         ELSE [rightmove_id |-> rightmove_id, data |-> parse(c.res.body),
               status |-> c.res.status]

\* HttpClient.get of task i moves to c2.  Inside a batch the awaiting
\* fetch_single_property runs on without suspending once the call is over
Settle(i, c2) ==
    IF b.pc = "gather" /\ Finished(c2)
    THEN /\ calls' = [calls EXCEPT ![i] = NoCall]
         /\ b' = [b EXCEPT !.results[i] = fetch_single_property(b.ids[i], c2),
                           !.raised[i] = TryRaises(c2)]
    ELSE /\ calls' = [calls EXCEPT ![i] = c2]
         /\ b' = b

\* await asyncio.sleep(delay) is over
GetDelayDone(i) ==
    /\ calls[i].pc = "delay"
    /\ Settle(i, Send([calls[i] EXCEPT !.log = Append(@, Ev("delay", kw.delay, "-"))]))
    /\ UNCHANGED <<now, column_default, client_closed, kw, cache, w, store, crawl, run, norm>>

\* await self.client.get(url) is over; on a retried ReadError aclose() is called
GetResponse(i) ==
    /\ calls[i].pc = "request"
    /\ \E o \in NetOutcomes :
          LET c2 == OnOutcome(calls[i], o, kw)
          IN  /\ Settle(i, c2)
              /\ client_closed' = (client_closed \/ c2.pc = "closing")
    /\ UNCHANGED <<now, column_default, kw, cache, w, store, crawl, run, norm>>

\* await self.client.aclose() is over: self.client = AsyncClient(...), then
\* asyncio.sleep(2 ** attempt) is awaited
GetRecreate(i) ==
    /\ calls[i].pc = "closing"
    /\ client_closed' = FALSE
    /\ Settle(i, [calls[i] EXCEPT
                    !.pc = "backoff",
                    !.log = @ \o <<Ev("new_client", calls[i].attempt, "-"),
                                   Ev("backoff", Backoff(calls[i].attempt), "-")>>])
    /\ UNCHANGED <<now, column_default, kw, cache, w, store, crawl, run, norm>>

\* await asyncio.sleep(2 ** attempt) is over: the next iteration of the loop
GetBackoffDone(i) ==
    /\ calls[i].pc = "backoff"
    /\ Settle(i, LoopTop([calls[i] EXCEPT !.attempt = @ + 1], kw))
    /\ UNCHANGED <<now, column_default, client_closed, kw, cache, w, store, crawl, run, norm>>

\* a caller awaits self.get(url, delay, max_retries) on its own
Get(k) ==
    /\ w.pc # "awaiting"
    /\ b.pc # "gather"
    /\ calls[1].pc \in {"none", "returned", "raised"}
    /\ calls' = [i \in Tasks |-> IF i = 1 THEN LoopTop(NoCall, k) ELSE NoCall]
    /\ kw' = k
    /\ UNCHANGED <<now, column_default, client_closed, cache, w, store, b, crawl, run, norm>>

\* time passes.  The clock is read when an operation starts and when it
\* stores its result, never inside HttpClient.get, so a tick during a transport
\* call is taken once the call is over.
Tick ==
    /\ now < MaxTime
    /\ b.pc # "gather"
    /\ \A i \in Tasks : calls[i].pc \in {"none", "returned", "raised"}
    /\ now' = now + 1
    /\ UNCHANGED <<column_default, client_closed, kw, calls, cache, w, store, b, crawl, run, norm>>

(***************************************************************************)
(* Database: table cached_content                                          *)
(***************************************************************************)
NoRow == [url |-> <<>>, content |-> None, created_at |-> 0 - 1,
          fetched_at |-> 0 - 1, updated_at |-> 0 - 1]

\* session.query(CachedContent).filter_by(url=url).first()
get_content(tbl, url) ==
    IF \E r \in tbl : r.url = url THEN CHOOSE r \in tbl : r.url = url ELSE NoRow

\* cached.fetched_at = datetime.now(timezone.utc), on the row save_content updates
UpdatedFetchedAt == now

\* the fetched_at of the row save_content inserts: the Column default,
\* datetime.now(timezone.utc) as evaluated when the model class was defined
InsertedFetchedAt == column_default

\* mutant of save_content: the row is added without looking for the url
save_content_always_inserts(tbl, url, content) ==
    tbl \cup {[url |-> url, content |-> content,
               created_at |-> column_default,
               fetched_at |-> now,
               updated_at |-> column_default]}

\* save_content(url, content): the row of the url is updated in place, or a
\* row is inserted when there is none
save_content(tbl, url, content) ==
    LET cached == get_content(tbl, url)
    IN  IF cached # NoRow
        THEN (tbl \ {cached}) \cup
             {[cached EXCEPT !.content = content,
                             !.fetched_at = UpdatedFetchedAt,
                             !.updated_at = column_default]}
        ELSE tbl \cup {[url |-> url, content |-> content,
                        created_at |-> column_default,
                        fetched_at |-> InsertedFetchedAt,
                        updated_at |-> column_default]}

(***************************************************************************)
(* Fetcher.fetch_webpage                                                   *)
(***************************************************************************)
\* mutant of IsFresh: the comparison is written <=
IsFresh_inclusive(t, fetched_at) == t - fetched_at <= cache_ttl_hours

\* now - fetched_at < self.cache_ttl
IsFresh(t, fetched_at) == t - fetched_at < cache_ttl_hours

\* `if content:` on the body the transport returned
Truthy(content) == content # None /\ content # ""

\* w.status is the status of the response the call ended with, 0 when there
\* was none (a cached body, an exception without a response)
NoFetch == [pc |-> "idle", key |-> <<>>, force |-> FALSE, ret |-> None,
            exc |-> "-", status |-> 0]

\* the call up to its first await: the cache lookup, and either the return of
\* the cached body or the call of self.http_client.get
FetchWebpage(url, force_refresh, k) ==
    /\ w.pc # "awaiting"
    /\ b.pc # "gather"
    /\ LET key     == KeyOf[url]
           cached  == IF force_refresh THEN NoRow ELSE get_content(cache, key)
           content == IF cached # NoRow /\ IsFresh(now, cached.fetched_at)
                      THEN cached.content ELSE None
       IN  IF content # None
           THEN /\ w' = [NoFetch EXCEPT !.pc = "done", !.key = key, !.ret = content]
                /\ calls' = [i \in Tasks |-> NoCall]
                /\ kw' = kw
           ELSE /\ w' = [NoFetch EXCEPT !.pc = "awaiting", !.key = key,
                                        !.force = force_refresh]
                /\ calls' = [i \in Tasks |-> IF i = 1 THEN LoopTop(NoCall, k) ELSE NoCall]
                /\ kw' = k
    /\ UNCHANGED <<now, column_default, client_closed, cache, store, b, crawl, run, norm>>

\* mutant of AfterGet: whatever the transport returned is saved
AfterGet_save_any(c) ==
    IF c.pc = "raised" THEN [raised |-> c.res.exc, content |-> None, save |-> FALSE]
    ELSE IF c.res.kind = "none" THEN [raised |-> "TypeError", content |-> None, save |-> FALSE]
    ELSE [raised |-> "-", content |-> c.res.body, save |-> TRUE]

\* mutant of AfterGet: an exception of the transport is swallowed, None is returned
AfterGet_swallow(c) ==
    IF c.pc = "raised" \/ c.res.kind = "none"
    THEN [raised |-> "-", content |-> None, save |-> FALSE]
    ELSE [raised |-> "-", content |-> c.res.body, save |-> Truthy(c.res.body)]

\* what fetch_webpage does once self.http_client.get is over with call c:
\* an exception passes through, `content, _ = None` is a TypeError, and
\* otherwise the body is returned, and saved when it is truthy
AfterGet(c) ==
    IF c.pc = "raised" THEN [raised |-> c.res.exc, content |-> None, save |-> FALSE]
    ELSE IF c.res.kind = "none" THEN [raised |-> "TypeError", content |-> None, save |-> FALSE]
    ELSE [raised |-> "-", content |-> c.res.body, save |-> Truthy(c.res.body)]

FetchWebpageResume ==
    /\ w.pc = "awaiting"
    /\ Finished(calls[1])
    /\ LET a == AfterGet(calls[1])
       IN  /\ cache' = IF a.save THEN save_content(cache, w.key, a.content) ELSE cache
           /\ w' = [w EXCEPT !.pc = IF a.raised # "-" THEN "raised" ELSE "done",
                             !.force = FALSE,
                             !.ret = a.content, !.exc = a.raised,
                             !.status = calls[1].res.status]
    /\ calls' = [calls EXCEPT ![1] = NoCall]
    /\ UNCHANGED <<now, column_default, client_closed, kw, store, b, crawl, run, norm>>

(***************************************************************************)
(* Database: table property                                                *)
(***************************************************************************)
\* mutant of save_properties: rightmove_id is not unique, every entry is inserted
save_properties_insert_all(tbl, properties) ==
    [tbl |-> tbl \cup {[rightmove_id |-> properties[i].rightmove_id,
                        data |-> properties[i].data,
                        created_at |-> column_default,
                        fetched_at |-> now,
                        updated_at |-> column_default] : i \in 1..Len(properties)},
     raised |-> "-"]

\* mutant of save_properties: an update leaves fetched_at as it was
save_properties_keeps_fetched_at(tbl, properties) ==
    LET idx       == 1..Len(properties)
        existing  == {r \in tbl : \E i \in idx : properties[i].rightmove_id = r.rightmove_id}
        known     == {r.rightmove_id : r \in existing}
        last(id)  == CHOOSE i \in idx :
                        /\ properties[i].rightmove_id = id
                        /\ \A j \in idx : properties[j].rightmove_id = id => j <= i
        to_update == {[r EXCEPT !.data = properties[last(r.rightmove_id)].data,
                                !.updated_at = column_default] : r \in existing}
        ins       == {i \in idx : properties[i].rightmove_id \notin known}
        to_insert == {[rightmove_id |-> properties[i].rightmove_id,
                       data |-> properties[i].data,
                       created_at |-> column_default,
                       fetched_at |-> now,
                       updated_at |-> column_default] : i \in ins}
        clash     == \E i, j \in ins :
                        i # j /\ properties[i].rightmove_id = properties[j].rightmove_id
    IN  IF clash
        THEN [tbl |-> tbl, raised |-> "IntegrityError"]
        ELSE [tbl |-> (tbl \ existing) \cup to_update \cup to_insert, raised |-> "-"]

\* save_properties(properties): rows whose rightmove_id is among the given ids
\* are updated in place, the other entries are inserted, one INSERT per entry
\* (bulk_save_objects); rightmove_id is unique, so two inserts of one id fail
\* and nothing is committed
save_properties(tbl, properties) ==
    LET idx       == 1..Len(properties)
        existing  == {r \in tbl : \E i \in idx : properties[i].rightmove_id = r.rightmove_id}
        known     == {r.rightmove_id : r \in existing}
        last(id)  == CHOOSE i \in idx :
                        /\ properties[i].rightmove_id = id
                        /\ \A j \in idx : properties[j].rightmove_id = id => j <= i
        to_update == {[r EXCEPT !.data = properties[last(r.rightmove_id)].data,
                                !.fetched_at = now,
                                !.updated_at = column_default] : r \in existing}
        ins       == {i \in idx : properties[i].rightmove_id \notin known}
        to_insert == {[rightmove_id |-> properties[i].rightmove_id,
                       data |-> properties[i].data,
                       created_at |-> column_default,
                       fetched_at |-> now,
                       updated_at |-> column_default] : i \in ins}
        clash     == \E i, j \in ins :
                        i # j /\ properties[i].rightmove_id = properties[j].rightmove_id
    IN  IF clash
        THEN [tbl |-> tbl, raised |-> "IntegrityError"]
        ELSE [tbl |-> (tbl \ existing) \cup to_update \cup to_insert, raised |-> "-"]

(***************************************************************************)
(* Fetcher.fetch_and_save_properties                                       *)
(***************************************************************************)
\* `if rightmove_id:` on the first member of a fetch result
Kept(r) == r.rightmove_id # 0

\* properties_to_save: one entry per kept fetch result, in order
properties_to_save(results) ==
    LET kept == SelectSeq(results, Kept)
    IN  [i \in 1..Len(kept) |-> [rightmove_id |-> kept[i].rightmove_id, data |-> kept[i].data]]

\* the returned dict, as a set of (key, value) entries: a later result for the
\* same id replaces an earlier one
result_dict(results) ==
    LET props == properties_to_save(results)
        idx   == 1..Len(props)
    IN  {props[i] : i \in {i \in idx :
            \A j \in idx : props[j].rightmove_id = props[i].rightmove_id => j <= i}}

\* raised[i]: the try block of task i raised
NoBatch == [pc |-> "idle", ids |-> <<>>, results |-> <<>>, raised |-> <<>>,
            saved |-> <<>>, save_calls |-> 0, result |-> {}, exc |-> "-"]

BatchInputs == UNION {[1..n -> Ids] : n \in 0..MaxBatch}

\* the call up to `await asyncio.gather(...)`: every coroutine is started and
\* runs to its first await
FetchAndSaveProperties(rightmove_ids, k) ==
    /\ b.pc # "gather"
    /\ w.pc # "awaiting"
    /\ LET n       == Len(rightmove_ids)
           started == [i \in 1..n |-> LoopTop(NoCall, k)]
       IN  /\ b' = [NoBatch EXCEPT
                      !.pc = "gather", !.ids = rightmove_ids,
                      !.results = [i \in 1..n |->
                          IF Finished(started[i])
                          THEN fetch_single_property(rightmove_ids[i], started[i])
                          ELSE Pending],
                      !.raised = [i \in 1..n |->
                          Finished(started[i]) /\ TryRaises(started[i])]]
           /\ calls' = [i \in Tasks |->
                          IF i <= n /\ ~Finished(started[i]) THEN started[i] ELSE NoCall]
    /\ kw' = k
    /\ UNCHANGED <<now, column_default, client_closed, cache, w, store, crawl, run, norm>>

\* mutant of AllResolved: the wait ends with the first coroutine that is done
AllResolved_first(results) == \E i \in 1..Len(results) : results[i] # Pending

\* `await asyncio.gather(...)` returns once every coroutine has returned
AllResolved(results) == \A i \in 1..Len(results) : results[i] # Pending

\* asyncio.gather is over: the results are collected and saved
BatchFinish ==
    /\ b.pc = "gather"
    /\ AllResolved(b.results)
    /\ LET props == properties_to_save(b.results)
           saved == IF props # <<>> THEN save_properties(store, props)
                    ELSE [tbl |-> store, raised |-> "-"]
       IN  /\ store' = saved.tbl
           /\ b' = [b EXCEPT !.pc = IF saved.raised # "-" THEN "raised" ELSE "done",
                             !.saved = props,
                             !.save_calls = IF props # <<>> THEN 1 ELSE 0,
                             !.result = IF saved.raised # "-" THEN {} ELSE result_dict(b.results),
                             !.exc = saved.raised]
    /\ UNCHANGED <<now, column_default, client_closed, kw, calls, cache, w, crawl, run, norm>>

(***************************************************************************)
(* Reconciliation: the ids a run fetches                                   *)
(***************************************************************************)
\* mutant of get_all_property_rightmove_ids: the query returns nothing
get_all_property_rightmove_ids_none(tbl) == {}

\* Database.get_all_property_rightmove_ids(): the ids of all rows
get_all_property_rightmove_ids(tbl) == {r.rightmove_id : r \in tbl}

\* Database.get_expired_property_rightmove_ids(hours): the ids of the rows
\* whose fetched_at is older than `hours` before now
get_expired_property_rightmove_ids(tbl, hours) ==
    {r.rightmove_id : r \in {x \in tbl : x.fetched_at < now - hours}}

\* new = candidates - known
NewIds(candidates, known) == candidates \ known

\* work = new + expired, without duplicates
WorkIds(new, expired) == new \cup expired

\* the ids of a set in ascending order
RECURSIVE SortedSeq(_)
SortedSeq(S) ==
    IF S = {} THEN <<>>
    ELSE LET m == CHOOSE x \in S : \A y \in S : x <= y
         IN  <<m>> \o SortedSeq(S \ {m})

NoRun == [pc |-> "idle", at |-> 0, candidates |-> {}, known |-> {},
          new |-> {}, expired |-> {}, work |-> {}]

\* a run reconciles the candidate ids found by the crawl against the store
Reconcile(candidates) ==
    /\ b.pc # "gather"
    /\ w.pc # "awaiting"
    /\ LET known   == get_all_property_rightmove_ids(store)
           expired == get_expired_property_rightmove_ids(store, ExpiredHours)
           new     == NewIds(candidates, known)
       IN  run' = [pc |-> "reconciled", at |-> now, candidates |-> candidates,
                   known |-> known, new |-> new, expired |-> expired,
                   work |-> WorkIds(new, expired)]
    /\ b' = NoBatch
    /\ UNCHANGED <<now, column_default, client_closed, kw, calls, cache, w, store, crawl, norm>>

\* the kwargs a run passes to fetch_and_save_properties
RunKwargs == [delay |-> 0, max_retries |-> 1]

\* the run fetches its work set as one chunk
RunBatch ==
    /\ run.pc = "reconciled"
    /\ b.pc = "idle"
    /\ FetchAndSaveProperties(SortedSeq(run.work), RunKwargs)

(***************************************************************************)
(* SitemapProcessor.get_all_page_urls                                      *)
(***************************************************************************)
\* sitemap URLs, as token sequences: sitemap.xml, sitemap-E.xml, sitemap-W.xml
SmR == <<"sitemap", ".xml">>
SmA == <<"sitemap", "-", "E", ".xml">>
SmB == <<"sitemap", "-", "W", ".xml">>
SitemapUrls == {SmR, SmA, SmB}

\* a parsed sitemap document: the <loc> texts of its <sitemap> elements and
\* of its <url> elements, in document order
Doc(sitemaps, urls) == [parsed |-> TRUE, sitemap |-> sitemaps, url |-> urls]

\* the root _parse_xml_sitemap returns when there is nothing to parse: None
NoRoot == [parsed |-> FALSE, sitemap |-> <<>>, url |-> <<>>]

\* the sites crawled, each giving the document behind every sitemap URL:
\* a tree, a back-reference (R -> A -> R, and on to B), a root that holds the
\* page URLs itself, and a root that names itself and names A twice
SiteTree  == (SmR :> Doc(<<SmA, SmB>>, <<>>)) @@ (SmA :> Doc(<<>>, <<"p1">>))
             @@ (SmB :> Doc(<<>>, <<"p2">>))
SiteCycle == (SmR :> Doc(<<SmA>>, <<>>)) @@ (SmA :> Doc(<<SmR, SmB>>, <<"p1">>))
             @@ (SmB :> Doc(<<>>, <<"p2">>))
SiteFlat  == (SmR :> Doc(<<>>, <<"p1", "p2">>)) @@ (SmA :> Doc(<<>>, <<>>))
             @@ (SmB :> Doc(<<>>, <<>>))
SiteSelf  == (SmR :> Doc(<<SmR, SmA, SmA>>, <<>>)) @@ (SmA :> Doc(<<>>, <<"p1">>))
             @@ (SmB :> Doc(<<>>, <<>>))
Sites == {SiteTree, SiteCycle, SiteFlat, SiteSelf}

\* the filters argument: None, or a collection of substrings
NoFilters == [given |-> FALSE, items |-> {}]
Filters(items) == [given |-> TRUE, items |-> items]
FilterInputs == {NoFilters, Filters({<<"E">>}), Filters({<<"E">>, <<"W">>})}

\* what one self.fetcher.fetch(url) does: it returns the document's text, an
\* empty text, None, text that is not XML, or it raises
FetchResults == {"body", "", None, "garbage", "raise"}

\* `f in url` on strings: f is a contiguous part of url
Contains(url, f) ==
    \E i \in 1..(Len(url) - Len(f) + 1) : SubSeq(url, i, i + Len(f) - 1) = f

\* _fetch_and_parse_sitemap(url) when fetch ends as o: the parsed root, or
\* None for no content, for empty content and for a ParseError
fetch_and_parse_sitemap(site, url, o) ==
    IF o = "body" THEN site[url] ELSE NoRoot

\* _get_locations_from_sitemap(root, element_name)
get_locations_from_sitemap(root, element_name) ==
    IF root = NoRoot THEN <<>> ELSE root[element_name]

\* the set of the members of a sequence
Range(s) == {s[i] : i \in 1..Len(s)}

\* mutant of Skipped: the filters are not looked at
Skipped_without_filters(url, filters, processed_sitemaps) ==
    url \in processed_sitemaps

\* the test of lines 74-75: the URL matches no filter, or was processed
Skipped(url, filters, processed_sitemaps) ==
    \/ (filters.given /\ ~\E f \in filters.items : Contains(url, f))
    \/ url \in processed_sitemaps

\* mutant of MarkProcessed: the URL is not recorded
MarkProcessed_forgets(processed_sitemaps, url) == processed_sitemaps

\* processed_sitemaps.add(current_sitemap_url)
MarkProcessed(processed_sitemaps, url) == processed_sitemaps \cup {url}

\* the nested locations that are appended to the queue (lines 89-91)
Appended(locs, processed_sitemaps) ==
    SelectSeq(locs, LAMBDA loc : loc \notin processed_sitemaps)

\* fetches[u]: how many times the crawl has fetched u, counted up to MaxFetches;
\* parsed: the URLs for which _fetch_and_parse_sitemap returned a document
NoCrawl == [pc |-> "idle", site |-> SiteTree, filters |-> NoFilters,
            sitemap_queue |-> <<>>, processed_sitemaps |-> {},
            all_page_urls |-> {}, fetches |-> [u \in SitemapUrls |-> 0],
            failed |-> {}, skipped |-> {}, parsed |-> {}, result |-> {}]

Fetched(c, url) ==
    [c EXCEPT !.fetches[url] = IF @ < MaxFetches THEN @ + 1 ELSE @]

\* get_all_page_urls(SmR, filters) up to the loop (lines 52-70): the root is
\* fetched and parsed; o is how that fetch ends
CrawlStart(site, filters, o) ==
    /\ crawl.pc # "loop"
    /\ LET c0   == Fetched([NoCrawl EXCEPT !.site = site, !.filters = filters], SmR)
           root == fetch_and_parse_sitemap(site, SmR, o)
           locs == get_locations_from_sitemap(root, "sitemap")
       IN  crawl' =
             IF o = "raise" THEN [c0 EXCEPT !.pc = "raised", !.failed = {SmR}]
             ELSE IF root = NoRoot THEN [c0 EXCEPT !.pc = "done", !.failed = {SmR}]
             ELSE [c0 EXCEPT !.pc = "loop", !.parsed = {SmR},
                             !.sitemap_queue = IF locs # <<>> THEN locs ELSE <<SmR>>]
    /\ UNCHANGED <<now, column_default, client_closed, kw, calls, cache, w, store, b, run, norm>>

\* one iteration of `while sitemap_queue` (lines 73-98); o is how the fetch
\* of the popped URL ends, when it is fetched
CrawlStep(o) ==
    /\ crawl.pc = "loop"
    /\ crawl.sitemap_queue # <<>>
    /\ LET url  == Head(crawl.sitemap_queue)
           rest == Tail(crawl.sitemap_queue)
       IN  IF Skipped(url, crawl.filters, crawl.processed_sitemaps)
           THEN crawl' = [crawl EXCEPT !.sitemap_queue = rest,
                                       !.skipped = @ \cup {url}]
           ELSE LET done == MarkProcessed(crawl.processed_sitemaps, url)
                    c1   == Fetched([crawl EXCEPT !.sitemap_queue = rest,
                                                  !.processed_sitemaps = done], url)
                    root == fetch_and_parse_sitemap(crawl.site, url, o)
                IN  crawl' =
                      IF o = "raise"
                      THEN [c1 EXCEPT !.pc = "raised", !.failed = @ \cup {url}]
                      ELSE IF root = NoRoot
                      THEN [c1 EXCEPT !.failed = @ \cup {url}]
                      ELSE [c1 EXCEPT
                              !.parsed = @ \cup {url},
                              !.sitemap_queue = rest \o
                                  Appended(get_locations_from_sitemap(root, "sitemap"), done),
                              !.all_page_urls = @ \cup
                                  Range(get_locations_from_sitemap(root, "url"))]
    /\ UNCHANGED <<now, column_default, client_closed, kw, calls, cache, w, store, b, run, norm>>

\* the queue is empty: return list(all_page_urls) (line 100)
CrawlReturn ==
    /\ crawl.pc = "loop"
    /\ crawl.sitemap_queue = <<>>
    /\ crawl' = [crawl EXCEPT !.pc = "done", !.result = crawl.all_page_urls]
    /\ UNCHANGED <<now, column_default, client_closed, kw, calls, cache, w, store, b, run, norm>>

(***************************************************************************)
(* normalize_url on pairs of input URLs                                    *)
(***************************************************************************)
\* the parts input URLs are built from
Schemes == {"http", "https"}
Hosts == {"Example.com", "example.com"}
\* /a   /a/   /a;/
Paths == { <<"/", "a">>, <<"/", "a", "/">>, <<"/", "a", ";", "/">> }
\* (none)   b=2&a=1   a=1&b=2   b=2&a=1&utm_source=x
Queries ==
    { <<>>,
      <<"b", "=", "2", "&", "a", "=", "1">>,
      <<"a", "=", "1", "&", "b", "=", "2">>,
      <<"b", "=", "2", "&", "a", "=", "1", "&", "utm_source", "=", "x">> }
\* (none)   #top
Fragments == { <<>>, <<"top">> }

UrlParts == [scheme : Schemes, host : Hosts, path : Paths,
             query : Queries, fragment : Fragments]

\* the text of the URL with parts c
UrlOf(c) ==
    <<c.scheme, ":", "/", "/", c.host>> \o c.path
    \o (IF c.query # <<>> THEN <<"?">> \o c.query ELSE <<>>)
    \o (IF c.fragment # <<>> THEN <<"#">> \o c.fragment ELSE <<>>)

NoParts == [scheme |-> "", host |-> "", path |-> <<>>, query |-> <<>>, fragment |-> <<>>]

NoNorm == [pc |-> "idle", cu |-> NoParts, cv |-> NoParts,
           nu |-> <<>>, nv |-> <<>>, nnu |-> <<>>]

\* normalize_url(u) and normalize_url(v)
Normalize ==
    /\ norm.pc = "input"
    /\ norm' = [norm EXCEPT !.pc = "normalized",
                            !.nu = normalize_url(UrlOf(norm.cu)),
                            !.nv = normalize_url(UrlOf(norm.cv))]
    /\ UNCHANGED <<now, column_default, client_closed, kw, calls, cache, w, store, b, crawl, run>>

\* normalize_url(normalize_url(u))
NormalizeAgain ==
    /\ norm.pc = "normalized"
    /\ norm' = [norm EXCEPT !.pc = "again", !.nnu = normalize_url(norm.nu)]
    /\ UNCHANGED <<now, column_default, client_closed, kw, calls, cache, w, store, b, crawl, run>>

(***************************************************************************)
(* Specifications                                                          *)
(***************************************************************************)
Init ==
    /\ now = 0
    /\ column_default = now
    /\ client_closed = FALSE
    /\ kw = [delay |-> 0, max_retries |-> 0]
    /\ calls = [i \in Tasks |-> NoCall]
    /\ cache = {}
    /\ w = NoFetch
    /\ store = {}
    /\ b = NoBatch
    /\ crawl = NoCrawl
    /\ run = NoRun
    /\ norm = NoNorm

Transport ==
    \E i \in Tasks : GetDelayDone(i) \/ GetResponse(i) \/ GetRecreate(i) \/ GetBackoffDone(i)

\* the transport alone: calls of HttpClient.get
NextGet ==
    \/ \E k \in Kwargs : Get(k)
    \/ Transport

SpecGet == Init /\ [][NextGet]_vars

\* the caching fetch: fetch_webpage over the transport
NextCache ==
    \/ Tick
    \/ \E url \in RawUrls, force \in BOOLEAN, k \in OpKwargs : FetchWebpage(url, force, k)
    \/ FetchWebpageResume
    \/ Transport

SpecCache == Init /\ [][NextCache]_vars

\* the entity batch: fetch_and_save_properties over the transport
NextBatch ==
    \/ \E ids \in BatchInputs, k \in BatchKwargs : FetchAndSaveProperties(ids, k)
    \/ BatchFinish
    \/ Transport

SpecBatch == Init /\ [][NextBatch]_vars

\* runs: reconcile, fetch the work set, save; the clock moves between steps
NextRun ==
    \/ Tick
    \/ \E candidates \in SUBSET Ids : Reconcile(candidates)
    \/ RunBatch
    \/ \E i \in Tasks : GetResponse(i)
    \/ BatchFinish

SpecRun == Init /\ [][NextRun]_vars

\* the sitemap crawl
NextCrawl ==
    \/ \E site \in Sites, filters \in FilterInputs, o \in FetchResults :
          CrawlStart(site, filters, o)
    \/ \E o \in FetchResults : CrawlStep(o)
    \/ CrawlReturn

SpecCrawl == Init /\ [][NextCrawl]_vars

\* the crawl is a loop of one thread, which goes on running
SpecCrawlFair ==
    SpecCrawl /\ WF_vars(\E o \in FetchResults : CrawlStep(o)) /\ WF_vars(CrawlReturn)

\* normalize_url applied to every pair of input URLs
InitNorm ==
    /\ now = 0
    /\ column_default = now
    /\ client_closed = FALSE
    /\ kw = [delay |-> 0, max_retries |-> 0]
    /\ calls = [i \in Tasks |-> NoCall]
    /\ cache = {}
    /\ w = NoFetch
    /\ store = {}
    /\ b = NoBatch
    /\ crawl = NoCrawl
    /\ run = NoRun
    /\ \E cu \in UrlParts, cv \in UrlParts : norm = [NoNorm EXCEPT !.pc = "input", !.cu = cu, !.cv = cv]

NextNorm == Normalize \/ NormalizeAgain

SpecNorm == InitNorm /\ [][NextNorm]_vars

Next == NextGet \/ NextCache \/ NextBatch \/ NextRun \/ NextCrawl \/ NextNorm

Spec == Init /\ [][Next]_vars

(***************************************************************************)
(* Properties                                                              *)
(***************************************************************************)
\* a step that starts a fetch_webpage call
StartsFetch == w.pc # "awaiting" /\ w' # w

\* the step in which fetch_webpage goes on after self.http_client.get
ResumesFetch == w.pc = "awaiting" /\ w'.pc # "awaiting"

\* the step in which fetch_and_save_properties goes on after asyncio.gather
FinishesBatch == b.pc = "gather" /\ b'.pc # "gather"

\* the rows of table property for one id
RowsOf(tbl, id) == {r \in tbl : r.rightmove_id = id}

\* the number of network attempts (client.get calls) in a call's log
Gets(log) == Cardinality({k \in 1..Len(log) : log[k].ev = "get"})

C2_FetchStoresBodyAtNow ==
    [][ ( /\ ResumesFetch
          /\ calls[1].res.kind = "pair"
          /\ IsSuccess(calls[1].res.status)
          /\ calls[1].res.body # "" ) =>
            /\ w'.pc = "done"
            /\ w'.ret = calls[1].res.body
            /\ \E r \in cache' : /\ r.url = w.key
                                 /\ r.content = calls[1].res.body
                                 /\ r.fetched_at = now ]_vars

\* C3: when HttpClient.get returns (None, 404) or (None, 410), fetch_webpage
\* returns None and the cache is what it was when the call began: no step of
\* the call changes it.
C3_PermanentFailureNotCached ==
    [][ /\ (w'.pc = "awaiting" => cache' = cache)
        /\ ( /\ ResumesFetch
             /\ calls[1].res.kind = "pair"
             /\ calls[1].res.status \in {404, 410} ) =>
               (w'.pc = "done" /\ w'.ret = None /\ cache' = cache) ]_vars

\* C3 witness: a fetch of a URL that has a cache row ended in None on a 404 or 410
C3_Witness ==
    /\ w.pc = "done" /\ w.status \in {404, 410} /\ w.ret = None
    /\ \E r \in cache : r.url = w.key

C5_PermanentReturnsAtOnce ==
    \A i \in Tasks :
        LET c == calls[i]
        IN  \A k \in 1..Len(c.log) :
                (c.log[k].ev = "resp" /\ c.log[k].n \in {404, 410}) =>
                    /\ k = Len(c.log)
                    /\ c.pc = "returned"
                    /\ c.res = [kind |-> "pair", body |-> None,
                                status |-> c.log[k].n, exc |-> "-"]

\* C5 witness: a 410 arrived on a retry and the call returned (None, 410)
C5_Witness ==
    /\ calls[1].pc = "returned" /\ calls[1].res.status = 410
    /\ calls[1].attempt >= 1

\* C6: a response whose status is neither 2xx nor 404/410 ends HttpClient.get
\* at once with the HTTP error carrying that status: the response answers the
\* one client.get before it and is the last event of the call (no retry, no
\* aclose / new client, no backoff).
C6_OtherStatusRaisesAtOnce ==
    \A i \in Tasks :
        LET c == calls[i]
        IN  \A k \in 1..Len(c.log) :
                ( /\ c.log[k].ev = "resp"
                  /\ c.log[k].n \notin 200..299
                  /\ c.log[k].n \notin {404, 410} ) =>
                    /\ k = Len(c.log)
                    /\ k > 1 /\ c.log[k - 1].ev = "get"
                    /\ c.pc = "raised"
                    /\ c.res.exc = "HTTPStatusError"
                    /\ c.res.status = c.log[k].n

\* C6 witness: a 500 on the first of several permitted attempts was raised
C6_Witness ==
    /\ calls[1].pc = "raised" /\ calls[1].res.exc = "HTTPStatusError"
    /\ calls[1].res.status = 500
    /\ calls[1].attempt = 0 /\ kw.max_retries >= 2

\* the connection-level transient failures: a connection reset while reading
\* (httpx.ReadError), a timeout establishing the connection (httpx.ConnectTimeout)
Transient == {"ReadError", "ConnectTimeout"}

\* C7: a connection-level transient failure is retried, up to max_retries
\* times and each time on a fresh connection: the call gives up on a transient
\* error only when the permitted attempts are used up, it never makes more
\* than max_retries retries, every attempt after the first follows a new
\* client, and a call whose last attempt failed transiently raises the error.
C7_TransientIsRetried ==
    \A i \in Tasks :
        LET c == calls[i]
        IN  /\ Gets(c.log) <= kw.max_retries + 1
            /\ \A k \in 1..Len(c.log) :
                  (c.log[k].ev = "get" /\ c.log[k].n > 0) =>
                      \E j \in 1..(k - 1) :
                          c.log[j].ev = "new_client" /\ c.log[j].n = c.log[k].n - 1
            /\ (c.pc = "raised" /\ c.res.exc \in Transient) =>
                  Gets(c.log) >= kw.max_retries
            /\ ( /\ Finished(c) /\ c.log # <<>>
                 /\ c.log[Len(c.log)].ev = "exc"
                 /\ c.log[Len(c.log)].s \in Transient ) => c.pc = "raised"

Withdrawn(r) == r.status \in {404, 410}

\* every fetch of the id of task i in the batch ended in 404 or 410
AllWithdrawn(i) ==
    \A j \in 1..Len(b.ids) : b.ids[j] = b.ids[i] => Withdrawn(b.results[j])

\* the page was fetched and the parser returned None
Unparsed(r) == r.rightmove_id # 0 /\ r.status \notin {404, 410} /\ r.data = None

\* for every fetch of the id of task i in the batch the parser returned None
AllUnparsed(i) ==
    \A j \in 1..Len(b.ids) : b.ids[j] = b.ids[i] => Unparsed(b.results[j])

\* C8: an id whose fetch resolves to 404 or 410 is absent from the records
\* handed to save_properties, and the batch leaves the store's rows for that
\* id as they were.
C8_WithdrawnNotPersisted ==
    [][ FinishesBatch =>
            \A i \in 1..Len(b.ids) :
                AllWithdrawn(i) =>
                    /\ \A j \in 1..Len(b'.saved) : b'.saved[j].rightmove_id # b.ids[i]
                    /\ RowsOf(store', b.ids[i]) = RowsOf(store, b.ids[i]) ]_vars

\* the ids of a batch are pairwise distinct
DistinctIds(ids) == \A i, j \in 1..Len(ids) : ids[i] = ids[j] => i = j

\* the fetch of exactly one task raised and every other task fetched a page
\* that parsed
OneFailure ==
    /\ Cardinality({i \in 1..Len(b.ids) : b.raised[i]}) = 1
    /\ \A i \in 1..Len(b.ids) :
          ~b.raised[i] => (b.results[i].status = 200 /\ b.results[i].data # None)

\* C9: in a batch of N distinct ids in which exactly one fetch raises and the
\* others fetch and parse, the batch ends normally, hands exactly the N-1
\* other records to save_properties, which stores them; the failing id is in
\* neither the saved records nor the returned dict and its rows are untouched.
C9_BatchIsolation ==
    [][ (FinishesBatch /\ DistinctIds(b.ids) /\ OneFailure) =>
            /\ b'.pc = "done"
            /\ Len(b'.saved) = Len(b.ids) - 1
            /\ \A i \in 1..Len(b.ids) :
                  IF b.raised[i]
                  THEN /\ \A j \in 1..Len(b'.saved) : b'.saved[j].rightmove_id # b.ids[i]
                       /\ \A e \in b'.result : e.rightmove_id # b.ids[i]
                       /\ RowsOf(store', b.ids[i]) = RowsOf(store, b.ids[i])
                  ELSE /\ \E j \in 1..Len(b'.saved) :
                              b'.saved[j] = [rightmove_id |-> b.ids[i],
                                             data |-> b.results[i].data]
                       /\ [rightmove_id |-> b.ids[i], data |-> b.results[i].data] \in b'.result
                       /\ \E r \in store' : /\ r.rightmove_id = b.ids[i]
                                           /\ r.data = b.results[i].data
                       /\ Cardinality(RowsOf(store', b.ids[i])) = 1 ]_vars

\* C9 witness: a batch of two ids ended normally with one failed fetch and
\* one saved record
C9_Witness ==
    /\ b.pc = "done" /\ Len(b.ids) = 2 /\ DistinctIds(b.ids)
    /\ OneFailure
    /\ Len(b.saved) = 1
    /\ \E r \in store : r.rightmove_id = b.saved[1].rightmove_id /\ r.data = b.saved[1].data

\* C10: when the parser returns None for a fetched body, the batch leaves the
\* store's rows for that id as they were, and a batch of distinct ids does
\* not fail.
C10_UnparsedNotPersisted ==
    [][ FinishesBatch =>
            /\ \A i \in 1..Len(b.ids) :
                  AllUnparsed(i) =>
                      RowsOf(store', b.ids[i]) = RowsOf(store, b.ids[i])
            /\ DistinctIds(b.ids) => b'.pc = "done" ]_vars

\* the step in which fetch_and_save_properties is called
StartsBatch == b.pc # "gather" /\ b'.pc = "gather"

\* table property holds a row for the id that is fresh at time t
FreshStored(tbl, id, t) == \E r \in RowsOf(tbl, id) : IsFresh(t, r.fetched_at)

\* C11: the fetch of one entity consults the store before the network: for
\* an id whose stored row is fresh, the batch does not invoke HttpClient.get
\* (no call is in flight for it, and none has been made and failed).
C11_FreshIdNotFetched ==
    [][ StartsBatch =>
            \A i \in 1..Len(b'.ids) :
                FreshStored(store, b'.ids[i], now) =>
                    /\ calls'[i].pc = "none"
                    /\ ~b'.raised[i] ]_vars

\* table property holds a row for the id that is older than the horizon at t
Expired(tbl, id, t) == \E r \in RowsOf(tbl, id) : r.fetched_at < t - ExpiredHours

\* C17: the sets a run reconciles: new = candidates - known, new and expired
\* are disjoint, work = new + expired, and until the run's fetch begins every
\* id of the work set is absent from the store or stored with a fetched_at
\* older than the horizon.
C17_ReconciliationDisjoint ==
    (run.pc = "reconciled" /\ b.pc = "idle") =>
        /\ run.new = run.candidates \ {r.rightmove_id : r \in store}
        /\ run.new \cap run.expired = {}
        /\ run.work = run.new \cup run.expired
        /\ \A id \in run.work : RowsOf(store, id) = {} \/ Expired(store, id, now)
        /\ \A id \in run.expired : Expired(store, id, run.at)

\* C17 witness: a run has reconciled a candidate set holding a new id and an
\* expired id, and a known id that is not expired stays out of the work set
C17_Witness ==
    /\ run.pc = "reconciled" /\ b.pc = "idle"
    /\ run.new # {} /\ run.expired # {}
    /\ run.expired \subseteq run.candidates

\* HttpClient.get of some task is under way
InFlight == \E i \in Tasks : calls[i].pc # "none"

\* C18: the join barrier of a chunk: table property is written only in the
\* step that follows asyncio.gather, when every fetch of the chunk has
\* resolved and no HttpClient.get is under way; and a fetch begins only in
\* the step that starts a chunk, which finds the previous chunk's write over
\* and none of its fetches under way.
C18_JoinBarrier ==
    [][ /\ (store' # store) =>
              /\ FinishesBatch
              /\ \A i \in 1..Len(b.ids) : b.results[i] # Pending
              /\ ~InFlight
        /\ (\E i \in Tasks : calls[i].pc = "none" /\ calls'[i].pc # "none") =>
              /\ StartsBatch
              /\ b.pc \in {"idle", "done", "raised"}
              /\ ~InFlight ]_vars

\* C18 witness: a chunk of two distinct ids has been written after both of
\* its fetches were answered with 200
C18_Witness ==
    /\ b.pc = "done" /\ Len(b.ids) = 2 /\ Len(b.saved) = 2 /\ DistinctIds(b.ids)
    /\ \A j \in 1..2 : b.results[j].status = 200
    /\ \A id \in Ids : Cardinality(RowsOf(store, id)) = 1

\* the step in which a run reconciles right after the previous run's batch
\* has returned
ReconcilesAgain == run.pc = "reconciled" /\ b.pc = "done" /\ b'.pc = "idle"

\* the previous run persisted every id of its work set
FullFetch == \A id \in run.work : \E j \in 1..Len(b.saved) : b.saved[j].rightmove_id = id

\* C19: restart idempotence: a run made at once after a run that persisted
\* its whole work set, with the same candidates, has an empty work set; and
\* the batch of a run with an empty work set calls save_properties zero times
\* and leaves every row, updated_at included, as it was.
C19_RestartIdempotent ==
    [][ /\ (ReconcilesAgain /\ FullFetch /\ run.at = now
                /\ run'.candidates = run.candidates) =>
              run'.work = {}
        /\ (FinishesBatch /\ run.pc = "reconciled" /\ run.work = {}) =>
              /\ b'.save_calls = 0
              /\ store' = store ]_vars

\* C19 witness: the batch of a second run has returned without a write: the
\* run's candidates are all the ids, its work set is empty, and every row was
\* fetched in the hour of the run, well after the rows were first due
C19_Witness ==
    /\ run.pc = "reconciled" /\ run.candidates = Ids /\ run.work = {}
    /\ b.pc = "done" /\ b.ids = <<>> /\ b.save_calls = 0
    /\ run.at > ExpiredHours
    /\ \A id \in Ids : \E r \in RowsOf(store, id) : r.fetched_at = run.at

\* C20: table property holds at most one row per rightmove_id, whatever the
\* batches saved: a batch may name an id twice and may name a stored id again.
C20_OneRowPerId ==
    \A id \in Ids : Cardinality(RowsOf(store, id)) <= 1

\* C20 witness: a batch that names a stored id twice, with two different
\* parsed bodies, has been saved over the row
C20_Witness ==
    /\ b.pc = "done" /\ Len(b.saved) = 2
    /\ b.saved[1].rightmove_id = b.saved[2].rightmove_id
    /\ b.saved[1].data # None /\ b.saved[2].data # None
    /\ b.saved[1].data # b.saved[2].data
    /\ \E r \in store : r.rightmove_id = b.saved[2].rightmove_id /\ r.data = b.saved[2].data

\* C12: within one crawl, every sitemap URL, the root included, is fetched at
\* most once.
C12_EachSitemapFetchedOnce ==
    \A u \in SitemapUrls : crawl.fetches[u] <= 1

\* C13: the crawl terminates: whatever the site (tree, back-reference,
\* self-reference, repeated entries) and however each fetch ends, a crawl
\* that is in its loop leaves the loop.
C13_CrawlTerminates == (crawl.pc = "loop") ~> (crawl.pc # "loop")

\* C13 witness: the crawl of the site with the back-reference R -> A -> R has
\* returned after fetching A and B
C13_Witness ==
    /\ crawl.pc = "done" /\ crawl.site = SiteCycle
    /\ crawl.fetches[SmA] >= 1 /\ crawl.fetches[SmB] >= 1
    /\ crawl.result = {"p1", "p2"}

\* C14: the filter is never applied to the root: when the crawl returns and
\* no fetch failed, the page URLs the root document holds are in the result,
\* whatever the filters.
C14_RootNotFiltered ==
    (crawl.pc = "done" /\ crawl.failed = {}) =>
        Range(crawl.site[SmR].url) \subseteq crawl.result

\* C15: a fetch failure on a node other than the root is not fatal, whether
\* the fetch gives no body or raises: the iteration only drops the node, the
\* crawl stays in its loop with the rest of the queue and the page URLs
\* collected so far.
C15_NodeFailureNotFatal ==
    [][ ( /\ crawl.pc = "loop" /\ crawl.sitemap_queue # <<>>
          /\ Head(crawl.sitemap_queue) # SmR
          /\ Head(crawl.sitemap_queue) \in crawl'.failed \ crawl.failed ) =>
            /\ crawl'.pc = "loop"
            /\ crawl'.sitemap_queue = Tail(crawl.sitemap_queue)
            /\ crawl'.all_page_urls = crawl.all_page_urls ]_vars

\* C16: when the fetch of the root before the loop fails (no body, empty body,
\* unparseable body, or an error), the crawl returns an empty result and has
\* fetched no other sitemap.
C16_FailedRootReturnsEmpty ==
    (SmR \in crawl.failed /\ crawl.processed_sitemaps = {}) =>
        /\ crawl.pc = "done"
        /\ crawl.result = {}
        /\ \A u \in SitemapUrls \ {SmR} : crawl.fetches[u] = 0

\* C21: save_properties is an upsert on the timestamps: a row that exists is
\* updated in place, created_at staying as it was and fetched_at and
\* updated_at becoming the time of the save; an id that is absent gets a row
\* whose created_at and fetched_at are the time of the save.
C21_UpsertTimestamps ==
    [][ (FinishesBatch /\ b'.pc = "done") =>
            \A j \in 1..Len(b'.saved) :
                LET id  == b'.saved[j].rightmove_id
                    old == RowsOf(store, id)
                IN  \A r \in RowsOf(store', id) :
                        IF old # {}
                        THEN /\ \A o \in old : r.created_at = o.created_at
                             /\ r.fetched_at = now
                             /\ r.updated_at = now
                        ELSE /\ r.created_at = now
                             /\ r.fetched_at = now ]_vars

\* the rows of table cached_content for one url
EntriesOf(tbl, url) == {r \in tbl : r.url = url}

\* C22: table cached_content holds at most one row per normalized URL, and
\* the fetched_at of a URL's row never decreases when the row is overwritten.
C22_OneEntryPerKeyMonotone ==
    [][ /\ \A r \in cache' : Cardinality(EntriesOf(cache', r.url)) = 1
        /\ \A r \in cache : \A r2 \in EntriesOf(cache', r.url) :
              r2.fetched_at >= r.fetched_at ]_vars

\* C22 witness: a fetch over the network has overwritten the row of its key
\* with the body it returned, at an hour later than the row's first fetch
C22_Witness ==
    /\ w.pc = "done" /\ w.status = 200
    /\ \E r \in cache : /\ r.url = w.key /\ r.content = w.ret
                        /\ r.fetched_at = now /\ r.fetched_at > r.created_at

\* the query fields of a URL that are not tracking parameters, without order
KeptFields(query) ==
    {f \in Range(QsFields(query)) : f.k \notin tracking_params}

\* two URLs that differ at most in scheme, case of the host, a trailing
\* slash of the path, the fragment, tracking parameters and the order of the
\* other query parameters
SameResource(c, d) ==
    /\ Lower(c.host) = Lower(d.host)
    /\ RStripSlash(c.path) = RStripSlash(d.path)
    /\ KeptFields(c.query) = KeptFields(d.query)

\* C23: two URLs that differ only in scheme, case of the host, a trailing
\* slash, the fragment, tracking parameters or the order of the remaining
\* query parameters are normalized to the same string.
C23_NormalizationEquivalence ==
    (norm.pc \in {"normalized", "again"} /\ SameResource(norm.cu, norm.cv)) =>
        norm.nu = norm.nv

\* C24: normalize_url is idempotent: normalizing a normalized URL returns it
\* unchanged.
C24_NormalizationIdempotent ==
    norm.pc = "again" => norm.nnu = norm.nu

\* a fetch result that survives: the id was fetched and its body parsed to data
Survives(r) == r.rightmove_id # 0 /\ r.data # None

\* the surviving results of a batch, in order, as entries to save
Surviving(results) ==
    LET kept == SelectSeq(results, Survives)
    IN  [i \in 1..Len(kept) |-> [rightmove_id |-> kept[i].rightmove_id, data |-> kept[i].data]]

\* C25: a batch calls save_properties exactly once, with exactly the
\* surviving results, and does not call it when no result survives (an empty
\* id list included).
C25_OneSaveOfSurvivors ==
    [][ FinishesBatch =>
            /\ b'.saved = Surviving(b.results)
            /\ b'.save_calls = IF Surviving(b.results) # <<>> THEN 1 ELSE 0 ]_vars

\* the URL matches at least one entry of the filters
Matches(url, filters) == \E f \in filters.items : Contains(url, f)

\* the sitemap URLs other than the root that a parsed document names
Reachable(c) ==
    {u \in SitemapUrls \ {SmR} : \E p \in c.parsed : u \in Range(c.site[p].sitemap)}

\* C26: with filters given, a nested sitemap whose URL contains none of the
\* filter strings is never fetched and gives no document; and when the crawl
\* returns, every nested sitemap whose URL contains a filter string and that
\* a parsed document names has been fetched.
C26_FilterOnNestedSitemaps ==
    crawl.filters.given =>
        /\ \A u \in SitemapUrls \ {SmR} :
              ~Matches(u, crawl.filters) =>
                  crawl.fetches[u] = 0 /\ u \notin crawl.parsed
        /\ crawl.pc = "done" =>
              \A u \in Reachable(crawl) :
                  Matches(u, crawl.filters) => crawl.fetches[u] >= 1

\* C26 witness: the crawl of the tree with filters ["E"] has returned: the
\* root names sitemap-E.xml and sitemap-W.xml, the first was fetched and its
\* page URL returned, the second was skipped without a fetch
C26_Witness ==
    /\ crawl.pc = "done" /\ crawl.site = SiteTree
    /\ crawl.filters = Filters({<<"E">>})
    /\ crawl.fetches[SmA] = 1 /\ crawl.fetches[SmB] = 0
    /\ SmB \in crawl.skipped
    /\ crawl.result = {"p1"}

\* C27: the result of a crawl that returns is exactly the union of the <url>
\* locations of every sitemap that was fetched and parsed during the crawl,
\* whatever the filters.
C27_ResultIsUnionOfLeaves ==
    crawl.pc = "done" =>
        crawl.result = UNION {Range(crawl.site[p].url) : p \in crawl.parsed}

\* the number of backoff waits in a call's log before position j
BackoffsBefore(log, j) == Cardinality({k \in 1..(j - 1) : log[k].ev = "backoff"})

\* C28: backoff in HttpClient.get is exponential and follows transient
\* failures only: every backoff wait comes right after a ReadError (and the
\* replacement of the client), the wait after the k-th failed attempt, k
\* counted from 0, is 2^k, no wait follows the last permitted attempt, and
\* nothing, so no backoff wait, follows a response, whatever its status.
C28_BackoffExponential ==
    \A i \in Tasks :
        LET log == calls[i].log
        IN  \A j \in 1..Len(log) :
              /\ log[j].ev = "backoff" =>
                    /\ j > 3
                    /\ log[j - 3].ev = "exc" /\ log[j - 3].s \in Transient
                    /\ log[j - 2].ev = "aclose" /\ log[j - 1].ev = "new_client"
                    /\ log[j].n = 2 ^ BackoffsBefore(log, j)
                    /\ log[j - 1].n = BackoffsBefore(log, j)
                    /\ BackoffsBefore(log, j) < kw.max_retries - 1
              /\ log[j].ev = "resp" => j = Len(log)

\* C28 witness: a call has waited 1 and then 2 time units after two
\* ReadErrors and has returned the body of its third attempt
C28_Witness ==
    \E i \in Tasks :
        LET log == calls[i].log
        IN  /\ calls[i].pc = "returned" /\ calls[i].res.status = 200
            /\ \E j, k \in 1..Len(log) :
                  /\ j < k
                  /\ log[j].ev = "backoff" /\ log[j].n = 1
                  /\ log[k].ev = "backoff" /\ log[k].n = 2

\* task i is about to call self.client.get: its sleep before the request is
\* over, or its backoff is over and another attempt follows without a sleep
AboutToSend(i) ==
    \/ calls[i].pc = "delay"
    \/ /\ calls[i].pc = "backoff"
       /\ kw.delay = 0
       /\ calls[i].attempt + 1 < kw.max_retries

\* C29: the fetches of one batch share one HttpClient: a fetch that goes on
\* to its request finds the shared client open and its request is sent,
\* whatever the other fetches of the batch have done to the client.
C29_SharedClientNeverClosed ==
    [][ \A i \in Tasks :
            (b.pc = "gather" /\ AboutToSend(i) /\ calls'[i] # calls[i]) =>
                /\ ~client_closed
                /\ calls'[i].pc = "request" ]_vars

\* C30: HttpClient.get ends in one of two ways, whatever max_retries (0
\* included) and whatever the network does: it returns a (body, status) pair
\* or it raises; it never returns without a pair, and it has made at least
\* one network attempt when it ends.
C30_GetReturnsPairOrRaises ==
    \A i \in Tasks :
        Finished(calls[i]) =>
            /\ calls[i].pc = "returned" => calls[i].res.kind = "pair"
            /\ calls[i].pc = "raised" => calls[i].res.kind = "exc"
            /\ Gets(calls[i].log) >= 1

====
